---- MODULE Spec2Model ----
(***************************************************************************)
(* OpsWorks layer adapter (internal/service/opsworks/layers.go).           *)
(*                                                                         *)
(* Three specifications share the variables below:                         *)
(*   Spec      the CRUD handlers Create / Read / Update / Delete acting on *)
(*             a ResourceData d and the remote OpsWorks API;               *)
(*   SpecAttr  the attribute-bag projection AttributeMap / SetAttributeMap *)
(*             applied to inputs drawn from bounded sets;                  *)
(*   SpecVol   VolumeConfigurations applied to bounded volume lists;        *)
(*   SpecPool  the IPAM pool data source                                   *)
(*             (internal/service/ec2/vpc_ipam_pool_data_source.go).        *)
(*                                                                         *)
(* Go strings that go through strconv are sequences of one-character       *)
(* strings; identifiers that are only compared are TLA+ strings.           *)
(***************************************************************************)
EXTENDS Integers, Sequences, FiniteSets

VARIABLES lt, d, remote, calls, ret, op, prev, arg, res, enc

vars == <<lt, d, remote, calls, ret, op, prev, arg, res, enc>>

\* ---------------------------------------------------------------- bounds

\* Number of attributes a layer type descriptor may declare.
MaxAttrs == 2

\* Largest magnitude of an integer attribute value (two decimal digits).
MaxInt == 12

\* Largest number of configured ebs_volume blocks.
MaxVolumes == 2

\* Largest number of records one DescribeIpamPools response carries.
MaxPools == 2

\* ------------------------------------------------------- strings, strconv

DigitChars == <<"0", "1", "2", "3", "4", "5", "6", "7", "8", "9">>

IsDigit(c) == \E i \in 1..Len(DigitChars) : DigitChars[i] = c

DigitOf(c) == (CHOOSE i \in 1..Len(DigitChars) : DigitChars[i] = c) - 1

RECURSIVE FormatDigits(_)
\* The decimal digits of n >= 0, most significant first.
FormatDigits(n) ==
    IF n < 10 THEN <<DigitChars[n + 1]>>
    ELSE FormatDigits(n \div 10) \o <<DigitChars[(n % 10) + 1]>>

\* strconv.Itoa
Itoa(n) == IF n < 0 THEN <<"-">> \o FormatDigits(0 - n) ELSE FormatDigits(n)

RECURSIVE ParseDigits(_, _)
\* Left-to-right accumulation n = n*10 + digit; fails on the first non-digit.
ParseDigits(s, n) ==
    IF s = <<>> THEN [ok |-> TRUE, val |-> n]
    ELSE IF ~IsDigit(Head(s)) THEN [ok |-> FALSE, val |-> 0]
    ELSE ParseDigits(Tail(s), n * 10 + DigitOf(Head(s)))

\* strconv.Atoi: optional sign, then one or more decimal digits.
Atoi(s) ==
    IF s = <<>> THEN [ok |-> FALSE, val |-> 0]
    ELSE LET signed == Head(s) \in {"-", "+"}
             body == IF signed THEN Tail(s) ELSE s
             p == ParseDigits(body, 0)
         IN  IF body = <<>> \/ ~p.ok THEN [ok |-> FALSE, val |-> 0]
             ELSE [ok |-> TRUE, val |-> IF Head(s) = "-" THEN 0 - p.val ELSE p.val]

opsworksTrueString == <<"t", "r", "u", "e">>

opsworksFalseString == <<"f", "a", "l", "s", "e">>

\* ------------------------------------------------- values of local fields

\* A field of the ResourceData: cleared (nil) or a typed value.  Every value
\* carries all four components so that values of different types compare.
Nil == [t |-> "nil", s |-> <<>>, i |-> 0, b |-> FALSE]

StrV(x) == [t |-> "string", s |-> x, i |-> 0, b |-> FALSE]

IntV(x) == [t |-> "int", s |-> <<>>, i |-> x, b |-> FALSE]

BoolV(x) == [t |-> "bool", s |-> <<>>, i |-> 0, b |-> x]

\* schema.ValueType of an attribute; TypeList stands for every type the
\* projection does not support.
TypeString == "TypeString"

TypeInt == "TypeInt"

TypeBool == "TypeBool"

TypeList == "TypeList"

SupportedTypes == {TypeString, TypeInt, TypeBool}

ValueTypes == SupportedTypes \cup {TypeList}

\* The zero value d.Get returns for a field that is not set.
ZeroValue(type) ==
    CASE type = TypeString -> StrV(<<>>)
      [] type = TypeInt -> IntV(0)
      [] type = TypeBool -> BoolV(FALSE)
      [] OTHER -> Nil

\* *string entries of the remote attribute bag.
NilPtr == [nil |-> TRUE, s |-> <<>>]

Ptr(x) == [nil |-> FALSE, s |-> x]

\* ------------------------------------------------------ layer descriptors

Keys == 1..MaxAttrs

\* The remote attribute name a descriptor key maps to (one name per key).
RemoteName(key) == <<"Attr", key>>

\* Position of an attribute definition in a fixed listing of the definitions.
DefRank(def) ==
    (CHOOSE i \in 1..4 : <<TypeString, TypeInt, TypeBool, TypeList>>[i] = def.Type) * 2
    + (IF def.WriteOnly THEN 1 ELSE 0)

\* opsworksLayerType.Attributes: key -> opsworksLayerTypeAttribute.  Keys are
\* interchangeable names and Go visits them in every order (Orders), so the
\* descriptors are taken up to a renaming of their keys: the keys in use are
\* 1..n and the definitions are listed in non-decreasing rank.
Descriptors ==
    UNION { { dd \in { [k \in 1..n |-> [AttrName |-> RemoteName(k),
                                       Type |-> f[k].Type,
                                       WriteOnly |-> f[k].WriteOnly]] :
                       f \in [1..n -> [Type : ValueTypes, WriteOnly : BOOLEAN]] } :
              \A k \in 1..(n - 1) : DefRank(dd[k]) <= DefRank(dd[k + 1]) } :
            n \in 0..MaxAttrs }

\* Go ranges over a map in an unspecified order: every permutation of keys.
Orders(S) ==
    { o \in [1..Cardinality(S) -> S] :
        \A i, j \in 1..Cardinality(S) : o[i] = o[j] => i = j }

\* d.Get(key): the stored value, or the zero value of the field's type.
Get(attrs, ltA, key) ==
    IF attrs[key] = Nil THEN ZeroValue(ltA[key].Type) ELSE attrs[key]

\* d.Set(key, value)
Set(attrs, key, value) == [attrs EXCEPT ![key] = value]

\* ------------------------------------------- attribute-bag projection

EmptyBag == [n \in {} |-> NilPtr]

\* attrs[name] = value on a Go map
Put(bag, name, value) ==
    [n \in (DOMAIN bag) \cup {name} |-> IF n = name THEN value ELSE bag[n]]

\* Mutant of EncodeValue: booleans are written as the numeric tokens 1 / 0.
EncodeValueNumericBool(type, value) ==
    CASE type = TypeString -> Ptr(value.s)
      [] type = TypeInt -> Ptr(Itoa(value.i))
      [] type = TypeBool -> IF value.b THEN Ptr(<<"1">>) ELSE Ptr(<<"0">>)

\* The *string one attribute encodes to (the body of AttributeMap's switch).
EncodeValue(type, value) ==
    CASE type = TypeString -> Ptr(value.s)
      [] type = TypeInt -> Ptr(Itoa(value.i))
      [] type = TypeBool ->
           IF value.b THEN Ptr(opsworksTrueString) ELSE Ptr(opsworksFalseString)

RECURSIVE AttributeMapLoop(_, _, _, _)
\* The range loop of AttributeMap over the keys in the order Go visits them.
AttributeMapLoop(ltA, local, order, attrs) ==
    IF order = <<>> THEN [attrs |-> attrs, err |-> FALSE]
    ELSE LET key == Head(order)
             def == ltA[key]
             value == Get(local, ltA, key)
         IN  IF def.Type \in SupportedTypes
             THEN AttributeMapLoop(ltA, local, Tail(order),
                                   Put(attrs, def.AttrName, EncodeValue(def.Type, value)))
             ELSE [attrs |-> EmptyBag, err |-> TRUE]

\* opsworksLayerType.AttributeMap: (bag, nil) or (nil, error)
AttributeMap(ltA, local, order) == AttributeMapLoop(ltA, local, order, EmptyBag)

\* The value a present bag entry decodes to (the body of SetAttributeMap's
\* switch); ok is FALSE for a type the switch does not know.
DecodeValue(type, strValue) ==
    CASE type = TypeString -> [ok |-> TRUE, value |-> StrV(strValue)]
      [] type = TypeInt ->
           LET r == Atoi(strValue)
           IN  [ok |-> TRUE, value |-> IF r.ok THEN IntV(r.val) ELSE Nil]
      [] type = TypeBool ->
           [ok |-> TRUE, value |-> BoolV(strValue # opsworksFalseString)]
      [] OTHER -> [ok |-> FALSE, value |-> Nil]

\* Mutant of IsSkipped: the write-only test is dropped, so remote placeholder
\* values overwrite the stored ones.
IsSkippedNever(def) == FALSE

\* Whether SetAttributeMap passes over an attribute without touching it.
IsSkipped(def) == def.WriteOnly

\* strPtr, ok := attrs[def.AttrName]; ok && strPtr != nil
IsPresent(attrs, def) == def.AttrName \in DOMAIN attrs /\ ~attrs[def.AttrName].nil

RECURSIVE SetAttributeMapLoop(_, _, _, _, _)
\* The range loop of SetAttributeMap over the keys in the order Go visits
\* them; sets is the sequence of keys d.Set has been called with.  The loop
\* is left as soon as one present entry has been handled (the return nil
\* that closes the if branch).
SetAttributeMapLoop(ltA, local, attrs, order, sets) ==
    IF order = <<>> THEN [local |-> local, err |-> FALSE, sets |-> sets]
    ELSE LET key == Head(order)
             def == ltA[key]
         IN  IF IsSkipped(def)
             THEN SetAttributeMapLoop(ltA, local, attrs, Tail(order), sets)
             ELSE IF IsPresent(attrs, def)
             THEN LET r == DecodeValue(def.Type, attrs[def.AttrName].s)
                  IN  IF r.ok
                      THEN [local |-> Set(local, key, r.value), err |-> FALSE,
                            sets |-> Append(sets, key)]
                      ELSE [local |-> local, err |-> TRUE, sets |-> sets]
             ELSE SetAttributeMapLoop(ltA, Set(local, key, Nil), attrs, Tail(order),
                                      Append(sets, key))

\* opsworksLayerType.SetAttributeMap: the local attributes after the call,
\* whether it returned an error, and the d.Set calls it made.
SetAttributeMap(ltA, local, attrs, order) ==
    SetAttributeMapLoop(ltA, local, attrs, order, <<>>)

\* ---------------------------------------------------- bounded input sets

IntValues == {0 - MaxInt, 0, MaxInt}

StringValues == {<<>>, <<"x">>}

\* The values a local field of the given type can hold.
LocalValues(type) ==
    CASE type = TypeString -> {Nil} \cup {StrV(x) : x \in StringValues}
      [] type = TypeInt -> {Nil} \cup {IntV(x) : x \in IntValues}
      [] type = TypeBool -> {Nil, BoolV(TRUE), BoolV(FALSE)}
      [] OTHER -> {Nil}

\* Every local attribute state of a descriptor.
LocalStates(ltA) ==
    { f \in [DOMAIN ltA -> UNION {LocalValues(ty) : ty \in ValueTypes}] :
        \A k \in DOMAIN ltA : f[k] \in LocalValues(ltA[k].Type) }

\* Strings the remote API may return: garbage, a number, the false token.
BagStrings == {<<"x">>, <<"0", "7">>, opsworksFalseString}

\* Remote attribute bags over the descriptor's remote names: each name is
\* absent, maps to nil, or maps to a string.
Bags(ltA) ==
    LET names == {ltA[k].AttrName : k \in DOMAIN ltA}
    IN  UNION { [S -> {NilPtr} \cup {Ptr(x) : x \in BagStrings}] : S \in SUBSET names }

\* ------------------------------------------------------------ state shape

NoLayer == ""

NoLoadBalancer == ""

\* schema.ResourceData: identifier, descriptor attributes,
\* elastic_load_balancer and the configured ebs_volume list.
ResourceData(id, attrs, elb, volumes) ==
    [id |-> id, attrs |-> attrs, elb |-> elb, ebs_volume |-> volumes]

\* The remote layer: whether it exists and the load balancer attached to it.
NoRemote == [exists |-> FALSE, lb |-> NoLoadBalancer]

\* No encode-then-decode round trip is in progress.
NoEnc == [rt |-> FALSE, src |-> <<>>]

\* ----------------------------------- SpecAttr: the projection on its own

AttrInit ==
    /\ lt \in Descriptors
    /\ \E local \in LocalStates(lt) : d = ResourceData(NoLayer, local, NoLoadBalancer, <<>>)
    /\ remote = NoRemote
    /\ calls = <<>>
    /\ ret = "nil"
    /\ op = "init"
    /\ prev = [d |-> d, remote |-> remote]
    /\ arg = EmptyBag
    /\ res = EmptyBag
    /\ enc = NoEnc

\* AttributeMap applied to the local state d the behaviour starts with,
\* which it only reads.
AttributeMapOp ==
    /\ op = "init"
    /\ \E order \in Orders(DOMAIN lt) :
        LET r == AttributeMap(lt, d.attrs, order)
        IN  /\ op' = "AttributeMap"
            /\ arg' = d.attrs
            /\ res' = r.attrs
            /\ ret' = IF r.err THEN "unsupported" ELSE "nil"
            /\ enc' = NoEnc
            /\ calls' = <<>>
            /\ prev' = [d |-> d, remote |-> remote]
            /\ UNCHANGED <<lt, d, remote>>

\* SetAttributeMap applied to a bag the remote may return and the local
\* state d the behaviour starts with.  Every (descriptor, local state) pair
\* is an initial state, so this applies the function to every input.
SetAttributeMapOp ==
    /\ op = "init"
    /\ \E attrs \in Bags(lt), order \in Orders(DOMAIN lt) :
        LET r == SetAttributeMap(lt, d.attrs, attrs, order)
        IN  /\ op' = "SetAttributeMap"
            /\ arg' = attrs
            /\ res' = EmptyBag
            /\ ret' = IF r.err THEN "unsupported" ELSE "nil"
            /\ enc' = NoEnc
            /\ calls' = r.sets
            /\ prev' = [d |-> d, remote |-> remote]
            /\ d' = [d EXCEPT !.attrs = r.local]
            /\ UNCHANGED <<lt, remote>>

\* Encode then decode: SetAttributeMap applied to the bag the preceding
\* AttributeMap returned, starting from any prior local state.
RoundTripOp ==
    /\ op = "AttributeMap"
    /\ ret = "nil"
    /\ \E prior \in LocalStates(lt), order \in Orders(DOMAIN lt) :
        LET r == SetAttributeMap(lt, prior, res, order)
        IN  /\ op' = "SetAttributeMap"
            /\ arg' = res
            /\ res' = EmptyBag
            /\ ret' = IF r.err THEN "unsupported" ELSE "nil"
            /\ enc' = [rt |-> TRUE, src |-> arg]
            /\ calls' = r.sets
            /\ prev' = [d |-> [d EXCEPT !.attrs = prior], remote |-> remote]
            /\ d' = [d EXCEPT !.attrs = r.local]
            /\ UNCHANGED <<lt, remote>>

AttrNext == AttributeMapOp \/ SetAttributeMapOp \/ RoundTripOp

SpecAttr == AttrInit /\ [][AttrNext]_vars

\* ------------------------------------------- properties of the projection

AllSupported == \A k \in DOMAIN lt : lt[k].Type \in SupportedTypes

\* How often d.Set was called with key during the last SetAttributeMap.
SetCount(key) == Cardinality({i \in 1..Len(calls) : calls[i] = key})

\* C2 (as claimed): after SetAttributeMap returns, every non-write-only
\* attribute of the descriptor has been set exactly once, and an attribute
\* whose remote key is absent from the bag (or nil) is cleared locally.
\* Stated for descriptors whose types are all supported.
C2_EveryFieldSetOnce ==
    (op = "SetAttributeMap" /\ AllSupported) =>
        \A k \in DOMAIN lt :
            ~lt[k].WriteOnly =>
                /\ SetCount(k) = 1
                /\ ~IsPresent(arg, lt[k]) => d.attrs[k] = Nil

\* C3 (as claimed): AttributeMap followed by SetAttributeMap on the returned
\* bag, from any prior local state, gives every non-write-only attribute the
\* value AttributeMap read.
C3_RoundTrip ==
    (op = "SetAttributeMap" /\ enc.rt) =>
        \A k \in DOMAIN lt :
            ~lt[k].WriteOnly => Get(d.attrs, lt, k) = Get(enc.src, lt, k)

\* C4: SetAttributeMap leaves the local value of every write-only attribute
\* as it was before the call, whatever the bag holds for it.
C4_WriteOnlyUntouched ==
    op = "SetAttributeMap" =>
        \A k \in DOMAIN lt : lt[k].WriteOnly => d.attrs[k] = prev.d.attrs[k]

\* C4 witness: a write-only integer attribute holds a value, the bag carries
\* a different number for it, and the call cleared or set another attribute.
C4_Witness ==
    /\ op = "SetAttributeMap"
    /\ calls # <<>>
    /\ \E k \in DOMAIN lt :
        /\ lt[k].WriteOnly
        /\ lt[k].Type = TypeInt
        /\ prev.d.attrs[k] = IntV(MaxInt)
        /\ IsPresent(arg, lt[k])
        /\ Atoi(arg[lt[k].AttrName].s).ok

\* C8 (as claimed): a non-numeric string for a non-write-only integer
\* attribute clears that field without an error, and SetAttributeMap returns
\* an error only if some attribute's declared type is unsupported.
C8_GarbageIntegerCleared ==
    op = "SetAttributeMap" =>
        /\ ret # "nil" => ~AllSupported
        /\ AllSupported =>
             \A k \in DOMAIN lt :
                 ( /\ lt[k].Type = TypeInt
                   /\ ~lt[k].WriteOnly
                   /\ IsPresent(arg, lt[k])
                   /\ ~Atoi(arg[lt[k].AttrName].s).ok )
                 => (d.attrs[k] = Nil /\ ret = "nil")

RECURSIVE DigitsValue(_)
\* The number a string of decimal digits denotes, by place value.
DigitsValue(s) ==
    IF s = <<>> THEN 0
    ELSE DigitsValue(SubSeq(s, 1, Len(s) - 1)) * 10 + DigitOf(s[Len(s)])

\* s is the decimal numeral of n >= 0 without leading zeros.
IsNumeralOf(s, n) ==
    /\ Len(s) >= 1
    /\ \A i \in 1..Len(s) : IsDigit(s[i])
    /\ Len(s) > 1 => s[1] # "0"
    /\ DigitsValue(s) = n

\* s is the decimal string of the integer n.
IsDecimalOf(s, n) ==
    IF n < 0 THEN Len(s) >= 2 /\ s[1] = "-" /\ IsNumeralOf(Tail(s), 0 - n)
    ELSE IsNumeralOf(s, n)

\* The bag entry the contract prescribes for a local value of a supported type.
IsEntryFor(type, value, entry) ==
    /\ ~entry.nil
    /\ type = TypeString => entry.s = value.s
    /\ type = TypeInt => IsDecimalOf(entry.s, value.i)
    /\ type = TypeBool =>
         entry.s = (IF value.b THEN <<"t", "r", "u", "e">> ELSE <<"f", "a", "l", "s", "e">>)

\* C9: AttributeMap returns an error and no bag exactly when some attribute
\* has an unsupported type; otherwise the bag has exactly one entry per
\* descriptor attribute, keyed by its remote name: "true"/"false" for a
\* boolean, the decimal string for an integer, the string itself for a string.
C9_AttributeMapContract ==
    op = "AttributeMap" =>
        /\ ret # "nil" <=> ~AllSupported
        /\ ret # "nil" => res = EmptyBag
        /\ ret = "nil" =>
             /\ DOMAIN res = {lt[k].AttrName : k \in DOMAIN lt}
             /\ Cardinality(DOMAIN res) = Cardinality(DOMAIN lt)
             /\ \A k \in DOMAIN lt :
                    IsEntryFor(lt[k].Type, Get(arg, lt, k), res[lt[k].AttrName])

\* C9 witness: a bag with a negative two-digit integer and a true boolean.
C9_Witness ==
    /\ op = "AttributeMap"
    /\ ret = "nil"
    /\ \E k \in DOMAIN lt : lt[k].Type = TypeInt /\ arg[k] = IntV(0 - MaxInt)
    /\ \E k \in DOMAIN lt : lt[k].Type = TypeBool /\ arg[k] = BoolV(TRUE)

\* --------------------------------------------------- volume configurations

\* aws.String / aws.Int64 / aws.Bool: a pointer to a value; NoValue is the
\* nil pointer of a field that was not assigned.
Some(v) == [nil |-> FALSE, v |-> v]

NoValue == [nil |-> TRUE]

\* Mutant of VolumeConfiguration: Iops is assigned unconditionally, so a zero
\* IOPS is sent explicitly.
VolumeConfigurationAlwaysIops(volumeData) ==
    [MountPoint |-> Some(volumeData.mount_point),
     NumberOfDisks |-> Some(volumeData.number_of_disks),
     Size |-> Some(volumeData.size),
     VolumeType |-> Some(volumeData.type),
     Encrypted |-> Some(volumeData.encrypted),
     Iops |-> Some(volumeData.iops),
     RaidLevel |-> IF volumeData.raid_level # <<>> /\ Atoi(volumeData.raid_level).ok
                   THEN Some(Atoi(volumeData.raid_level).val)
                   ELSE NoValue]

\* The body of the loop of VolumeConfigurations: the outbound record of one
\* configured volume.
VolumeConfiguration(volumeData) ==
    [MountPoint |-> Some(volumeData.mount_point),
     NumberOfDisks |-> Some(volumeData.number_of_disks),
     Size |-> Some(volumeData.size),
     VolumeType |-> Some(volumeData.type),
     Encrypted |-> Some(volumeData.encrypted),
     Iops |-> IF volumeData.iops # 0 THEN Some(volumeData.iops) ELSE NoValue,
     RaidLevel |-> IF volumeData.raid_level # <<>> /\ Atoi(volumeData.raid_level).ok
                   THEN Some(Atoi(volumeData.raid_level).val)
                   ELSE NoValue]

\* opsworksLayerType.VolumeConfigurations: result[i] for every configured
\* volume i.
VolumeConfigurations(configuredVolumes) ==
    [i \in 1..Len(configuredVolumes) |-> VolumeConfiguration(configuredVolumes[i])]

\* One ebs_volume block with the given mount point.
VolumeBlocks(mount) ==
    [mount_point : {<<"/mnt", mount>>},
     number_of_disks : {1},
     size : {10},
     type : {"standard"},
     encrypted : BOOLEAN,
     iops : {0, 100},
     raid_level : {<<>>, <<"5">>, <<"i", "n", "v">>}]

\* d.Get("ebs_volume").(*schema.Set).List(): the set is hashed on the mount
\* point, so a list holds each mount point at most once, in any order.
VolumeLists ==
    UNION { { l \in [1..n -> UNION {VolumeBlocks(m) : m \in 1..MaxVolumes}] :
                \A i, j \in 1..n : l[i].mount_point = l[j].mount_point => i = j } :
            n \in 0..MaxVolumes }

VolInit ==
    /\ lt \in {dd \in Descriptors : DOMAIN dd = {}}
    /\ \E configuredVolumes \in VolumeLists :
        d = ResourceData(NoLayer, lt, NoLoadBalancer, configuredVolumes)
    /\ remote = NoRemote
    /\ calls = <<>>
    /\ ret = "nil"
    /\ op = "init"
    /\ prev = [d |-> d, remote |-> remote]
    /\ arg = <<>>
    /\ res = <<>>
    /\ enc = NoEnc

\* VolumeConfigurations applied to the ebs_volume list configured in d.
VolumeConfigurationsOp ==
    /\ op' = "VolumeConfigurations"
    /\ arg' = d.ebs_volume
    /\ res' = VolumeConfigurations(d.ebs_volume)
    /\ UNCHANGED <<lt, d, remote, calls, ret, prev, enc>>

VolNext == VolumeConfigurationsOp

SpecVol == VolInit /\ [][VolNext]_vars

\* C10: VolumeConfigurations yields one record per configured volume; the
\* record's IOPS is present exactly when the configured IOPS is not zero
\* (and then carries it); mount point, disk count, size, type and encrypted
\* are always present.
C10_VolumeRecords ==
    op = "VolumeConfigurations" =>
        /\ Len(res) = Len(arg)
        /\ \A i \in 1..Len(arg) :
            /\ res[i].Iops.nil <=> arg[i].iops = 0
            /\ ~res[i].Iops.nil => res[i].Iops.v = arg[i].iops
            /\ ~res[i].MountPoint.nil /\ res[i].MountPoint.v = arg[i].mount_point
            /\ ~res[i].NumberOfDisks.nil
            /\ ~res[i].Size.nil
            /\ ~res[i].VolumeType.nil
            /\ ~res[i].Encrypted.nil

\* C10 witness: one request carrying a volume with IOPS 0 and one with 100.
C10_Witness ==
    /\ op = "VolumeConfigurations"
    /\ \E i, j \in 1..Len(arg) :
        /\ arg[i].iops = 0 /\ res[i].Iops.nil
        /\ arg[j].iops = 100 /\ res[j].Iops = Some(100)

\* ------------------------------------------------- Spec: the CRUD handlers

LayerId == "layer-1"

LoadBalancers == {NoLoadBalancer, "lb-1", "lb-2"}

\* The layer types the handlers run with: descriptors of at most the first
\* attribute key, of every type and write-only flag.
LayerTypes == {dd \in Descriptors : Len(dd) <= 1}

\* The running state of one handler invocation: the ResourceData, the remote
\* layer, the API calls issued so far, and the returned error once done.
Start(data, rem) ==
    [d |-> data, remote |-> rem, calls |-> <<>>, ret |-> "nil", done |-> FALSE]

\* return err / return nil
Return(s, r) == [s EXCEPT !.ret = r, !.done = TRUE]

\* One request to the OpsWorks API and its outcome: "ok", "NotFound", "error".
Call(s, api, name, out) ==
    [s EXCEPT !.calls = Append(@, [api |-> api, name |-> name, out |-> out])]

\* The outcome of a request addressed to the layer: it fails when the input
\* says so or when the layer does not exist remotely.
Outcome(s, api, fail) ==
    IF fail = api THEN "error"
    ELSE IF ~s.remote.exists THEN "NotFound"
    ELSE "ok"

\* Mutant of ReadDescribe: the IsNewResource test is dropped, so a not-found
\* right after creation also clears the identifier.
ReadDescribeIgnoreNew(s, isNew, in) ==
    LET out == IF in.fail = "DescribeLayers:NotFound" THEN "NotFound"
               ELSE Outcome(s, "DescribeLayers", in.fail)
        c == Call(s, "DescribeLayers", s.d.id, out)
    IN  IF out = "ok" THEN c
        ELSE IF out = "NotFound"
        THEN Return([c EXCEPT !.d.id = NoLayer], "nil")
        ELSE Return(c, "wrapped")

\* Read, lines 289-296: DescribeLayers and its error handling.
ReadDescribe(s, isNew, in) ==
    LET out == IF in.fail = "DescribeLayers:NotFound" THEN "NotFound"
               ELSE Outcome(s, "DescribeLayers", in.fail)
        c == Call(s, "DescribeLayers", s.d.id, out)
    IN  IF out = "ok" THEN c
        ELSE IF ~isNew /\ out = "NotFound"
        THEN Return([c EXCEPT !.d.id = NoLayer], "nil")
        ELSE Return(c, "wrapped")

\* Read, lines 298-323: the plain fields; an invalid custom_json is an error.
ReadFields(s, in) ==
    IF s.done THEN s
    ELSE IF in.fail = "CustomJson" THEN Return(s, "wrapped")
    ELSE s

\* Read, lines 325-328: SetAttributeMap on the layer's attribute bag.
ReadAttributes(s, ltA, in) ==
    IF s.done THEN s
    ELSE LET r == SetAttributeMap(ltA, s.d.attrs, in.bag, in.order)
             c == [s EXCEPT !.d.attrs = r.local]
         IN  IF r.err THEN Return(c, "unsupported") ELSE c

\* Read, lines 333-351: the attached load balancer.
ReadLoadBalancer(s, in) ==
    IF s.done THEN s
    ELSE LET out == Outcome(s, "DescribeElasticLoadBalancers", in.fail)
             c == Call(s, "DescribeElasticLoadBalancers", s.d.id, out)
         IN  IF out # "ok" THEN Return(c, "api")
             ELSE [c EXCEPT !.d.elb = s.remote.lb]

\* Read, lines 353-372: the tags.
ReadTags(s, in) ==
    IF s.done THEN s
    ELSE LET out == Outcome(s, "ListTags", in.fail)
             c == Call(s, "ListTags", s.d.id, out)
         IN  IF out # "ok" THEN Return(c, "wrapped") ELSE Return(c, "nil")

\* opsworksLayerType.Read
ReadHandler(s, ltA, isNew, in) ==
    IF s.done THEN s
    ELSE ReadTags(ReadLoadBalancer(ReadAttributes(
             ReadFields(ReadDescribe(s, isNew, in), in), ltA, in), in), in)

\* Create / Update, lines 380-383 and 452-455: AttributeMap for the request.
RequestAttributes(s, ltA, in) ==
    IF AttributeMap(ltA, s.d.attrs, in.order).err THEN Return(s, "unsupported") ELSE s

\* Create, lines 412-418: CreateLayer, then the identifier is recorded.
CreateLayer(s, in) ==
    IF s.done THEN s
    ELSE IF in.fail = "CreateLayer"
    THEN Return(Call(s, "CreateLayer", NoLayer, "error"), "api")
    ELSE [Call(s, "CreateLayer", NoLayer, "ok")
             EXCEPT !.remote = [exists |-> TRUE, lb |-> NoLoadBalancer],
                    !.d.id = LayerId]

\* Mutant of Attach: the error of the request is dropped and the handler
\* carries on.
AttachIgnoreError(s, name, in) ==
    IF s.done \/ name = NoLoadBalancer THEN s
    ELSE LET out == Outcome(s, "AttachElasticLoadBalancer", in.fail)
             c == Call(s, "AttachElasticLoadBalancer", name, out)
         IN  IF out # "ok" THEN c
             ELSE [c EXCEPT !.remote.lb = name]

\* Lines 423-429 and 502-508: AttachElasticLoadBalancer of a non-empty name.
Attach(s, name, in) ==
    IF s.done \/ name = NoLoadBalancer THEN s
    ELSE LET out == Outcome(s, "AttachElasticLoadBalancer", in.fail)
             c == Call(s, "AttachElasticLoadBalancer", name, out)
         IN  IF out # "ok" THEN Return(c, "api")
             ELSE [c EXCEPT !.remote.lb = name]

\* Lines 440-444 and 517-524: UpdateTags when there are tags to write.
WriteTags(s, in) ==
    IF s.done \/ ~in.tags THEN s
    ELSE LET out == Outcome(s, "UpdateTags", in.fail)
             c == Call(s, "UpdateTags", s.d.id, out)
         IN  IF out # "ok" THEN Return(c, "wrapped") ELSE c

\* opsworksLayerType.Create: data holds the configuration of the new layer,
\* in.elb its elastic_load_balancer, in.tags whether there are tags.
CreateHandler(ltA, data, rem, in) ==
    LET s == Start([data EXCEPT !.id = NoLayer, !.elb = in.elb], rem)
    IN  ReadHandler(
            WriteTags(Attach(CreateLayer(RequestAttributes(s, ltA, in), in), in.elb, in), in),
            ltA, TRUE, in)

\* Mutant of Detach: the error of the request is dropped and the handler
\* carries on to the attach.
DetachIgnoreError(s, name, in) ==
    IF s.done \/ name = NoLoadBalancer THEN s
    ELSE LET out == IF s.remote.exists /\ s.remote.lb # name /\ in.fail # "DetachElasticLoadBalancer"
                    THEN "NotFound"
                    ELSE Outcome(s, "DetachElasticLoadBalancer", in.fail)
             c == Call(s, "DetachElasticLoadBalancer", name, out)
         IN  IF out # "ok" THEN c
             ELSE [c EXCEPT !.remote.lb = NoLoadBalancer]

\* Update, lines 489-498: DetachElasticLoadBalancer of a non-empty name; the
\* remote drops the association when the request succeeds, and refuses a
\* load balancer that is not attached to the layer.
Detach(s, name, in) ==
    IF s.done \/ name = NoLoadBalancer THEN s
    ELSE LET out == IF s.remote.exists /\ s.remote.lb # name /\ in.fail # "DetachElasticLoadBalancer"
                    THEN "NotFound"
                    ELSE Outcome(s, "DetachElasticLoadBalancer", in.fail)
             c == Call(s, "DetachElasticLoadBalancer", name, out)
         IN  IF out # "ok" THEN Return(c, "api")
             ELSE [c EXCEPT !.remote.lb = NoLoadBalancer]

\* Mutant of SwapLoadBalancer: the new load balancer is attached before the
\* old one is detached.
SwapLoadBalancerAttachFirst(s, lbo, lbn, in) ==
    IF s.done \/ lbo = lbn THEN s
    ELSE Detach(Attach(s, lbn, in), lbo, in)

\* Update, lines 483-510: the load balancer is swapped when it has changed.
SwapLoadBalancer(s, lbo, lbn, in) ==
    IF s.done \/ lbo = lbn THEN s
    ELSE Attach(Detach(s, lbo, in), lbn, in)

\* Update, lines 512-515: UpdateLayer.
UpdateLayer(s, in) ==
    IF s.done THEN s
    ELSE LET out == Outcome(s, "UpdateLayer", in.fail)
             c == Call(s, "UpdateLayer", s.d.id, out)
         IN  IF out # "ok" THEN Return(c, "api") ELSE c

\* Mutant of UpdateHandler: UpdateLayer is requested before the load balancer
\* is swapped.
UpdateHandlerLayerFirst(ltA, data, rem, in) ==
    LET s == Start([data EXCEPT !.elb = in.elb], rem)
    IN  ReadHandler(
            WriteTags(SwapLoadBalancer(UpdateLayer(RequestAttributes(s, ltA, in), in),
                                       data.elb, in.elb, in), in),
            ltA, FALSE, in)

\* opsworksLayerType.Update: data is the prior state, in.elb the planned
\* elastic_load_balancer, in.tags whether tags_all has changed.
UpdateHandler(ltA, data, rem, in) ==
    LET s == Start([data EXCEPT !.elb = in.elb], rem)
    IN  ReadHandler(
            WriteTags(UpdateLayer(SwapLoadBalancer(RequestAttributes(s, ltA, in),
                                                   data.elb, in.elb, in), in), in),
            ltA, FALSE, in)

\* opsworksLayerType.Delete
DeleteHandler(data, rem, in) ==
    LET s == Start(data, rem)
        out == Outcome(s, "DeleteLayer", in.fail)
        c == Call(s, "DeleteLayer", data.id, out)
    IN  IF out # "ok" THEN Return(c, "api")
        ELSE Return([c EXCEPT !.remote = NoRemote], "nil")

\* The calls that may fail before SetAttributeMap is reached, and after it.
EarlyFailures ==
    {"CreateLayer", "DetachElasticLoadBalancer", "AttachElasticLoadBalancer",
     "UpdateLayer", "UpdateTags", "DescribeLayers", "DescribeLayers:NotFound",
     "CustomJson"}

LateFailures == {"none", "DescribeElasticLoadBalancers", "ListTags"}

\* The inputs of one invocation: the first call that fails (a handler returns
\* at its first error), the attribute bag DescribeLayers returns, the order
\* in which Go visits the descriptor, the configured elastic_load_balancer
\* and whether there are tags (or tag changes) to write.
Inputs(ltA, elbs, tagss) ==
    { [fail |-> f, bag |-> b, order |-> o, elb |-> e, tags |-> g] :
        f \in LateFailures, b \in Bags(ltA), o \in Orders(DOMAIN ltA),
        e \in elbs, g \in tagss }
    \cup
    { [fail |-> f, bag |-> EmptyBag, order |-> o, elb |-> e, tags |-> g] :
        f \in EarlyFailures, o \in Orders(DOMAIN ltA), e \in elbs, g \in tagss }

Init ==
    /\ lt \in LayerTypes
    /\ \E local \in LocalStates(lt) : d = ResourceData(NoLayer, local, NoLoadBalancer, <<>>)
    /\ remote = NoRemote
    /\ calls = <<>>
    /\ ret = "nil"
    /\ op = "idle"
    /\ prev = [d |-> d, remote |-> remote]
    /\ arg = [fail |-> "none", bag |-> EmptyBag, order |-> <<>>,
              elb |-> NoLoadBalancer, tags |-> FALSE]
    /\ res = EmptyBag
    /\ enc = NoEnc

\* The state a finished handler leaves behind: its effects, the calls it
\* issued and what it returned, next to the state and inputs it started from.
Finish(name, s, in) ==
    /\ op' = name
    /\ d' = s.d
    /\ remote' = s.remote
    /\ calls' = s.calls
    /\ ret' = s.ret
    /\ prev' = [d |-> d, remote |-> remote]
    /\ arg' = in
    /\ UNCHANGED <<lt, res, enc>>

\* The host creates the layer: no layer exists yet.
Create ==
    /\ op = "idle"
    /\ ~remote.exists
    /\ \E in \in Inputs(lt, LoadBalancers, BOOLEAN) :
        Finish("Create", CreateHandler(lt, d, remote, in), in)

\* The host refreshes a layer it has in its state.
Read ==
    /\ op = "idle"
    /\ d.id # NoLayer
    /\ \E in \in Inputs(lt, {d.elb}, {FALSE}) :
        Finish("Read", ReadHandler(Start(d, remote), lt, FALSE, in), in)

\* The host applies a plan to a layer it has in its state.
Update ==
    /\ op = "idle"
    /\ d.id # NoLayer
    /\ \E in \in Inputs(lt, LoadBalancers, BOOLEAN) :
        Finish("Update", UpdateHandler(lt, d, remote, in), in)

\* The host destroys a layer it has in its state.
Delete ==
    /\ op = "idle"
    /\ d.id # NoLayer
    /\ \E f \in {"none", "DeleteLayer"} :
        LET in == [fail |-> f, bag |-> EmptyBag, order |-> <<>>,
                   elb |-> d.elb, tags |-> FALSE]
        IN  Finish("Delete", DeleteHandler(d, remote, in), in)

\* The handler has returned: the host keeps d and the remote keeps the layer;
\* the record of the finished invocation is dropped before the next one.
Returned ==
    /\ op # "idle"
    /\ op' = "idle"
    /\ calls' = <<>>
    /\ ret' = "nil"
    /\ prev' = [d |-> d, remote |-> remote]
    /\ arg' = [fail |-> "none", bag |-> EmptyBag, order |-> <<>>,
               elb |-> NoLoadBalancer, tags |-> FALSE]
    /\ UNCHANGED <<lt, d, remote, res, enc>>

Next == Create \/ Read \/ Update \/ Delete \/ Returned

Spec == Init /\ [][Next]_vars

\* ---------------------------------------------- properties of the handlers

IsLoadBalancerCall(c) ==
    c.api \in {"DetachElasticLoadBalancer", "AttachElasticLoadBalancer"}

\* The detach / attach requests of the last invocation, in order.
LoadBalancerCalls == SelectSeq(calls, IsLoadBalancerCall)

\* The requests the contract prescribes for a change from lbo to lbn.
ExpectedSwap(lbo, lbn) ==
    IF lbo = lbn THEN <<>>
    ELSE (IF lbo # "" THEN <<[api |-> "DetachElasticLoadBalancer", name |-> lbo]>> ELSE <<>>)
         \o (IF lbn # "" THEN <<[api |-> "AttachElasticLoadBalancer", name |-> lbn]>> ELSE <<>>)

\* Position of the first request to api in the last invocation, 0 if none.
FirstCall(api) ==
    IF \E i \in 1..Len(calls) : calls[i].api = api
    THEN CHOOSE i \in 1..Len(calls) :
             calls[i].api = api /\ \A j \in 1..(i - 1) : calls[j].api # api
    ELSE 0

\* C1: in Update the load-balancer requests follow the change from the old
\* to the new identifier: detach old then attach new when both are non-empty,
\* only the attach when old is empty, only the detach when new is empty, none
\* when the identifier did not change.  Requests are issued in that order up
\* to the first one that fails, once AttributeMap has built the request.
C1_UpdateSwapOrder ==
    op = "Update" =>
        LET issued == LoadBalancerCalls
            expected == ExpectedSwap(prev.d.elb, arg.elb)
        IN  /\ Len(issued) <= Len(expected)
            /\ \A i \in 1..Len(issued) :
                /\ issued[i].api = expected[i].api
                /\ issued[i].name = expected[i].name
            /\ (ret # "unsupported" /\ \A i \in 1..Len(issued) : issued[i].out = "ok")
                   => Len(issued) = Len(expected)

\* C1 witness: an update from lb-1 to lb-2 that detached lb-1 and then
\* attached lb-2.
C1_Witness ==
    /\ op = "Update"
    /\ prev.d.elb = "lb-1"
    /\ arg.elb = "lb-2"
    /\ LoadBalancerCalls =
         <<[api |-> "DetachElasticLoadBalancer", name |-> "lb-1", out |-> "ok"],
           [api |-> "AttachElasticLoadBalancer", name |-> "lb-2", out |-> "ok"]>>
    /\ remote.lb = "lb-2"

\* C5: in Create an attach is issued only after CreateLayer has succeeded and
\* only for a non-empty configured load balancer (and then it is issued); if
\* the attach fails, Create returns that error, the layer exists remotely
\* with its identifier recorded in d, and nothing follows the attach: no
\* DeleteLayer, no UpdateTags, no read.
C5_CreateAttach ==
    op = "Create" =>
        LET a == FirstCall("AttachElasticLoadBalancer")
            c == FirstCall("CreateLayer")
        IN  /\ a # 0 =>
                /\ c # 0 /\ c < a /\ calls[c].out = "ok"
                /\ arg.elb # NoLoadBalancer
                /\ calls[a].name = arg.elb
            /\ (c # 0 /\ calls[c].out = "ok" /\ arg.elb # NoLoadBalancer) => a # 0
            /\ (a # 0 /\ calls[a].out # "ok") =>
                /\ ret = "api"
                /\ a = Len(calls)
                /\ remote.exists
                /\ d.id = LayerId
                /\ \A i \in 1..Len(calls) :
                       calls[i].api \notin {"DeleteLayer", "UpdateTags", "DescribeLayers"}

\* C5 witness: a Create with tags to write whose attach failed, leaving the
\* layer created and unassociated.
C5_Witness ==
    /\ op = "Create"
    /\ arg.tags
    /\ arg.elb = "lb-1"
    /\ Len(calls) = 2
    /\ calls[2] = [api |-> "AttachElasticLoadBalancer", name |-> "lb-1", out |-> "error"]
    /\ remote = [exists |-> TRUE, lb |-> NoLoadBalancer]
    /\ d.id = LayerId
    /\ ret = "api"

\* C6: in Update from a non-empty old to a different non-empty new load
\* balancer: when the detach succeeds and the attach fails, Update returns an
\* error, the layer has no load balancer and nothing is re-attached; when
\* the detach fails, no attach is issued and the association is as before.
C6_UpdateSwapFailure ==
    (op = "Update" /\ prev.d.elb # "" /\ arg.elb # "" /\ prev.d.elb # arg.elb) =>
        LET dt == FirstCall("DetachElasticLoadBalancer")
            at == FirstCall("AttachElasticLoadBalancer")
        IN  /\ (dt # 0 /\ calls[dt].out = "ok" /\ at # 0 /\ calls[at].out # "ok") =>
                /\ ret = "api"
                /\ remote.lb = NoLoadBalancer
                /\ at = Len(calls)
                /\ \A i \in 1..Len(calls) :
                       calls[i].api = "AttachElasticLoadBalancer" => calls[i].name = arg.elb
            /\ (dt # 0 /\ calls[dt].out # "ok") =>
                /\ ret = "api"
                /\ at = 0
                /\ dt = Len(calls)
                /\ remote.lb = prev.remote.lb

\* C6 witness: lb-1 was attached, the detach succeeded and the attach of
\* lb-2 failed.
C6_Witness ==
    /\ op = "Update"
    /\ prev.remote.lb = "lb-1"
    /\ prev.d.elb = "lb-1"
    /\ arg.elb = "lb-2"
    /\ Len(calls) = 2
    /\ calls[1] = [api |-> "DetachElasticLoadBalancer", name |-> "lb-1", out |-> "ok"]
    /\ calls[2] = [api |-> "AttachElasticLoadBalancer", name |-> "lb-2", out |-> "error"]
    /\ remote.lb = NoLoadBalancer

\* C7: when DescribeLayers fails in a Read of a known (not new) layer with a
\* not-found error, the identifier is cleared and no error is returned; any
\* other DescribeLayers error, and a not-found error while the resource is
\* new (the Read that ends Create), is returned wrapped and leaves the
\* identifier and the local attributes as they were.
C7_ReadDescribeErrors ==
    LET r == FirstCall("DescribeLayers")
    IN  (op \in {"Read", "Update", "Create"} /\ r # 0 /\ calls[r].out # "ok") =>
            /\ r = Len(calls)
            /\ (op # "Create" /\ calls[r].out = "NotFound") =>
                   /\ ret = "nil"
                   /\ d.id = NoLayer
                   /\ d.attrs = prev.d.attrs
            /\ (op = "Create" \/ calls[r].out = "error") =>
                   /\ ret = "wrapped"
                   /\ d.id = (IF op = "Create" THEN LayerId ELSE prev.d.id)
                   /\ d.id # NoLayer
                   /\ d.attrs = prev.d.attrs
                   /\ d.elb = arg.elb

\* C7 witness: a Read of a recorded layer that is gone remotely cleared the
\* identifier and returned nil.
C7_Witness ==
    /\ op = "Read"
    /\ prev.d.id = LayerId
    /\ ~prev.remote.exists
    /\ calls = <<[api |-> "DescribeLayers", name |-> LayerId, out |-> "NotFound"]>>
    /\ d.id = NoLayer
    /\ ret = "nil"

\* The requests Update issues after the load balancer has been swapped.
AfterSwapCalls ==
    {"UpdateLayer", "UpdateTags", "DescribeLayers", "DescribeElasticLoadBalancers",
     "ListTags"}

\* C12: in Update the detach and attach requests precede UpdateLayer; when
\* one of them fails, neither UpdateLayer nor the tag update nor the read is
\* issued; when UpdateLayer fails after they succeeded, the association is
\* already the new one, nothing reverts it, and neither the tag update nor
\* the read is issued.
C12_UpdateOrder ==
    op = "Update" =>
        LET u == FirstCall("UpdateLayer")
        IN  /\ \A i \in 1..Len(calls) :
                   IsLoadBalancerCall(calls[i]) =>
                       /\ u # 0 => i < u
                       /\ calls[i].out # "ok" =>
                              \A j \in 1..Len(calls) : calls[j].api \notin AfterSwapCalls
            /\ (u # 0 /\ calls[u].out # "ok") =>
                   /\ ret = "api"
                   /\ u = Len(calls)
                   /\ prev.d.elb # arg.elb => remote.lb = arg.elb
                   /\ \A j \in 1..Len(calls) :
                          calls[j].api \notin (AfterSwapCalls \ {"UpdateLayer"})

\* C12 witness: lb-1 was swapped for lb-2, then UpdateLayer failed with tag
\* changes still to write.
C12_Witness ==
    /\ op = "Update"
    /\ arg.tags
    /\ prev.remote.lb = "lb-1"
    /\ calls = <<[api |-> "DetachElasticLoadBalancer", name |-> "lb-1", out |-> "ok"],
                 [api |-> "AttachElasticLoadBalancer", name |-> "lb-2", out |-> "ok"],
                 [api |-> "UpdateLayer", name |-> LayerId, out |-> "error"]>>
    /\ remote.lb = "lb-2"
    /\ ret = "api"

\* C13 (as claimed): the local state SetAttributeMap produces depends on the
\* prior local state, the descriptor and the bag only: with two or more
\* non-write-only attributes, every order of visiting the descriptor's
\* attributes yields the local state the call produced.
C13_OrderIndependent ==
    ( /\ op = "SetAttributeMap"
      /\ AllSupported
      /\ Cardinality({k \in DOMAIN lt : ~lt[k].WriteOnly}) >= 2 ) =>
        \A order \in Orders(DOMAIN lt) :
            SetAttributeMap(lt, prev.d.attrs, arg, order).local = d.attrs

\* ------------------------------------------ SpecPool: the pool data source

RECURSIVE Split(_, _)
\* strings.Split(s, sep) for a one-character separator: the substrings
\* between the separators, one more than there are separators.
Split(s, sep) ==
    IF \A i \in 1..Len(s) : s[i] # sep THEN <<s>>
    ELSE LET i == CHOOSE i \in 1..Len(s) :
                      s[i] = sep /\ \A j \in 1..(i - 1) : s[j] # sep
         IN  <<SubSeq(s, 1, i - 1)>> \o Split(SubSeq(s, i + 1, Len(s)), sep)

\* The computed attributes the lookup copies from a pool field of the same
\* meaning with a plain d.Set.
CopiedAttributes ==
    {"auto_import", "arn", "description", "ipam_scope_type", "locale", "pool_depth",
     "aws_service", "source_ipam_pool_id", "state"}

\* The attributes the lookup may set.
PoolAttributes ==
    CopiedAttributes \cup {"publicly_advertisable", "ipam_scope_id",
                           "allocation_resource_tags"}

\* A nil *ec2.IpamPool in the response.
NilPool == [nil |-> TRUE]

\* IpamScopeArn values: without a path separator, with one, with two.
ScopeArns ==
    {<<"a", "r", "n">>, <<"a", "r", "n", "/", "s", "1">>,
     <<"a", "r", "n", "/", "s", "1", "/", "x">>}

\* The *ec2.IpamPool records a response may carry: pointer fields are set or
\* nil; Fields stands for the fields behind CopiedAttributes.
Pools ==
    [nil : {FALSE},
     IpamPoolId : {Some("pool-1"), Some("pool-2")},
     IpamScopeArn : {NoValue} \cup {Some(a) : a \in ScopeArns},
     PubliclyAdvertisable : {NoValue, Some(TRUE)},
     Fields : {[n \in CopiedAttributes |-> v] : v \in {NoValue, Some("v")}}]

\* What DescribeIpamPools answers: an error, a nil output, or up to MaxPools
\* records in the order the provider returns them.
Responses ==
    {[err |-> TRUE, nil |-> TRUE, IpamPools |-> <<>>],
     [err |-> FALSE, nil |-> TRUE, IpamPools |-> <<>>]}
    \cup
    { [err |-> FALSE, nil |-> FALSE, IpamPools |-> l] :
        l \in UNION {[1..n -> Pools \cup {NilPool}] : n \in 0..MaxPools} }

\* The ResourceData of the data source before the lookup: the configured
\* ipam_pool_id and filter, no identifier, no computed attribute.
PoolData(poolId, filter) ==
    [id |-> "", ipam_pool_id |-> poolId, filter |-> filter,
     attrs |-> [n \in PoolAttributes |-> NoValue]]

\* d.Set(name, pointer): a nil pointer leaves the attribute unset.
SetAll(attrs, values) ==
    [n \in DOMAIN attrs |-> IF n \in DOMAIN values THEN values[n] ELSE attrs[n]]

\* The DescribeIpamPoolsInput the lookup builds (lines 96-106): the pool id
\* and the filters are passed on only when they are configured.
PoolQuery(data) ==
    [api |-> "DescribeIpamPools",
     IpamPoolIds |-> IF data.ipam_pool_id # "" THEN <<data.ipam_pool_id>> ELSE <<>>,
     Filters |-> data.filter]

\* dataSourceVPCIpamPoolRead after the query has been answered: the local
\* state and what the lookup returns; "panic" is the run-time panic of line
\* 125 on a nil IpamScopeArn or on one without a path separator.
PoolRead(data, response) ==
    IF response.err THEN [d |-> data, ret |-> "api"]
    ELSE IF response.nil \/ Len(response.IpamPools) = 0 \/ response.IpamPools[1].nil
    THEN [d |-> data, ret |-> "nil"]
    ELSE LET pool == response.IpamPools[1]
             d1 == [data EXCEPT !.id = pool.IpamPoolId.v]
             d2 == IF pool.PubliclyAdvertisable.nil THEN d1
                   ELSE [d1 EXCEPT !.attrs.publicly_advertisable = pool.PubliclyAdvertisable]
         IN  IF pool.IpamScopeArn.nil \/ Len(Split(pool.IpamScopeArn.v, "/")) < 2
             THEN [d |-> d2, ret |-> "panic"]
             ELSE LET scopeId == Split(pool.IpamScopeArn.v, "/")[2]
                  IN  [d |-> [d2 EXCEPT
                                !.attrs = SetAll([@ EXCEPT !.ipam_scope_id = Some(scopeId),
                                                           !.allocation_resource_tags = Some("tags")],
                                                 pool.Fields)],
                       ret |-> "nil"]

PoolInit ==
    /\ lt \in {dd \in Descriptors : DOMAIN dd = {}}
    /\ \E poolId \in {"", "pool-1"}, filter \in {{}, {"f"}} : d = PoolData(poolId, filter)
    /\ remote = NoRemote
    /\ calls = <<>>
    /\ ret = "nil"
    /\ op = "init"
    /\ prev = [d |-> d, remote |-> remote]
    /\ arg = <<>>
    /\ res = <<>>
    /\ enc = NoEnc

\* The lookup runs once on the ResourceData the host built: one query, whose
\* answer the remote chooses; a query by pool id is answered with records of
\* that pool only.
PoolReadOp ==
    /\ op = "init"
    /\ \E response \in Responses :
        /\ \A i \in 1..Len(response.IpamPools) :
               (d.ipam_pool_id # "" /\ ~response.IpamPools[i].nil)
                   => response.IpamPools[i].IpamPoolId.v = d.ipam_pool_id
        /\ LET r == PoolRead(d, response)
           IN  /\ op' = "PoolRead"
               /\ calls' = <<PoolQuery(d)>>
               /\ arg' = response
               /\ d' = r.d
               /\ ret' = r.ret
               /\ prev' = [d |-> d, remote |-> remote]
               /\ UNCHANGED <<lt, remote, res, enc>>

PoolNext == PoolReadOp

SpecPool == PoolInit /\ [][PoolNext]_vars

\* The response of the last lookup carried a first record.
HasFirstRecord ==
    ~arg.err /\ ~arg.nil /\ Len(arg.IpamPools) >= 1 /\ ~arg.IpamPools[1].nil

\* C11 (as claimed): a pool lookup issues exactly one list query; when the
\* query returns one or more records, the local identifier is the pool id of
\* the first record and no error occurs, also without a filter and with
\* several records; when it returns no record, no error is returned and the
\* identifier and all output attributes stay unset.
C11_FirstRecordSelected ==
    op = "PoolRead" =>
        /\ Len(calls) = 1
        /\ HasFirstRecord => (ret = "nil" /\ d.id = arg.IpamPools[1].IpamPoolId.v)
        /\ (~arg.err /\ Len(arg.IpamPools) = 0) => (ret = "nil" /\ d = prev.d)

\* The part of C11 the lookup meets: the same, for a first record whose
\* IpamScopeArn is set and has a path separator.
C11_FirstRecordSelectedWellFormed ==
    op = "PoolRead" =>
        /\ Len(calls) = 1
        /\ ( /\ HasFirstRecord
             /\ ~arg.IpamPools[1].IpamScopeArn.nil
             /\ Len(Split(arg.IpamPools[1].IpamScopeArn.v, "/")) >= 2 )
               => (ret = "nil" /\ d.id = arg.IpamPools[1].IpamPoolId.v)
        /\ (~arg.err /\ Len(arg.IpamPools) = 0) => (ret = "nil" /\ d = prev.d)

====
